---- MODULE Spec2Model ----
(***************************************************************************)
(* The user session lifecycle manager of the aim server: the two shared    *)
(* registries (browser_state, codebase_state) of api/api_server.py, the    *)
(* provider functions that compute new snapshots from old ones             *)
(* (providers/browser/browser_provider.py,                                 *)
(* providers/codebase/codebase_provider.py), the request handlers that     *)
(* swap the shared references, and the inactivity reaper                   *)
(* recycle_inactive_users.                                                 *)
(*                                                                         *)
(* One asyncio event loop runs everything: a step of the model is the code *)
(* a coroutine runs between two suspension points.  The suspension points  *)
(* are the awaits on external I/O (create context, close context, the      *)
(* health probe, the agent flows) and the reaper's sleep.                  *)
(***************************************************************************)
EXTENDS Integers, Sequences, FiniteSets, TLC

(***************************************************************************)
(* Bounds of the model and program constants.                              *)
(***************************************************************************)
MaxContexts == 2
MaxHealthChecks == 2
MaxProbes == 3

INACTIVITY_THRESHOLD_SECONDS == 3600

Users == {"u1", "u2"}
Urls == {"w1"}
\* the (project_address, metadata) pairs requests carry: a project, the same
\* address with other metadata, another address
Projects ==
    {[project_address |-> "a1", metadata |-> "None"],
     [project_address |-> "a1", metadata |-> "m1"],
     [project_address |-> "a2", metadata |-> "None"]}
Slots == {1, 2}
\* the clock readings: the start, exactly the inactivity threshold later, and
\* one second past it
Instants == {0, INACTIVITY_THRESHOLD_SECONDS, INACTIVITY_THRESHOLD_SECONDS + 1}

VARIABLES
    browser_state,   \* the shared browser registry reference
    codebase_state,  \* the shared codebase registry reference
    time,            \* the wall clock, in seconds
    contexts,        \* every BrowserContext ever created: owner, open?, closes
    health_calls,    \* how often _check_project_health was invoked
    slots,           \* the request handlers in flight
    reaper,          \* the recycle_inactive_users task
    hist             \* observations: the last step's outcome, published removals

vars == <<browser_state, codebase_state, time, contexts, health_calls,
          slots, reaper, hist>>

(***************************************************************************)
(* Python dicts: insertion-ordered sequences of key/value pairs.           *)
(***************************************************************************)
DictKeys(d) == {d[i].k : i \in DOMAIN d}

DictHas(d, key) == key \in DictKeys(d)

DictGet(d, key) == d[CHOOSE i \in DOMAIN d : d[i].k = key].v

\* {**d, key: value}: an existing key keeps its position, a new one is appended
DictSet(d, key, value) ==
    IF DictHas(d, key)
    THEN [i \in DOMAIN d |-> IF d[i].k = key THEN [k |-> key, v |-> value] ELSE d[i]]
    ELSE Append(d, [k |-> key, v |-> value])

\* {k: v for k, v in d.items() if k != key}
DictDel(d, key) == SelectSeq(d, LAMBDA e : e.k # key)

\* dict equality: same keys, same values, whatever the order
DictEq(d1, d2) ==
    /\ DictKeys(d1) = DictKeys(d2)
    /\ \A key \in DictKeys(d1) : DictGet(d1, key) = DictGet(d2, key)

KeyList(d) == [i \in DOMAIN d |-> d[i].k]

(***************************************************************************)
(* datetime values: seconds plus whether the value carries a timezone.     *)
(* datetime.utcnow() is naive, datetime.now(timezone.utc) is aware; an     *)
(* ordering comparison of a naive with an aware value raises TypeError.    *)
(***************************************************************************)
utcnow == [t |-> time, aware |-> FALSE]

now_utc == [t |-> time, aware |-> TRUE]

Comparable(a, b) == a.aware = b.aware

Earlier(a, b) == a.t < b.t

(***************************************************************************)
(* Results of the returns library: Success(value) or Failure(error).       *)
(***************************************************************************)
NoValue == [none |-> TRUE]

Success(value) ==
    [ok |-> TRUE, value |-> value, operation_name |-> "", user_id |-> "",
     project_address |-> "", details |-> ""]

\* _make_browser_error / _make_codebase_error wrapped in Failure
Failure(operation_name, user_id, project_address, details) ==
    [ok |-> FALSE, value |-> NoValue, operation_name |-> operation_name,
     user_id |-> user_id, project_address |-> project_address,
     details |-> details]

NoResult == Failure("NONE", "", "", "")

\* what a caller keeps of a result once it has used the value
Outcome(result) == [result EXCEPT !.value = NoValue]

(***************************************************************************)
(* providers/browser/browser_provider.py                                   *)
(***************************************************************************)
\* BrowserState(browser_instance=...) with the two default (empty) dicts
create_browser_state == [user_contexts |-> <<>>, user_metadata |-> <<>>]

UserMetadata(website_url, last_active_timestamp) ==
    [website_url |-> website_url, last_active_timestamp |-> last_active_timestamp]

get_user_context(state, user_id) ==
    IF DictHas(state.user_contexts, user_id)
    THEN Success(DictGet(state.user_contexts, user_id))
    ELSE Failure("GET_USER_CONTEXT_NOT_FOUND", user_id, "", "")

get_user_metadata(state, user_id) ==
    IF DictHas(state.user_metadata, user_id)
    THEN Success(DictGet(state.user_metadata, user_id))
    ELSE Failure("GET_USER_METADATA_NOT_FOUND", user_id, "", "")

\* The part of add_user_context_and_metadata that runs before any await.
\* wait = TRUE: the caller is suspended in _create_browser_context and meta
\* is the UserMetadata to store once the context exists.
add_user_context_and_metadata_keeps_request_meta(current_state, user_id, user_meta) ==
    IF DictHas(current_state.user_contexts, user_id)
    THEN IF /\ DictHas(current_state.user_metadata, user_id)
            /\ DictGet(current_state.user_metadata, user_id) = user_meta
         THEN [wait |-> FALSE, result |-> Success(current_state),
               meta |-> user_meta]
         ELSE [wait |-> FALSE,
               result |-> Success(
                   [current_state EXCEPT !.user_metadata =
                       DictSet(current_state.user_metadata, user_id, user_meta)]),
               meta |-> user_meta]
    ELSE [wait |-> TRUE, result |-> NoResult,
          meta |-> [user_meta EXCEPT !.last_active_timestamp = utcnow]]

add_user_context_and_metadata(current_state, user_id, user_meta) ==
    LET now == utcnow
        updated == UserMetadata(user_meta.website_url, now)
    IN  IF DictHas(current_state.user_contexts, user_id)
        THEN IF /\ DictHas(current_state.user_metadata, user_id)
                /\ DictGet(current_state.user_metadata, user_id) = updated
             THEN [wait |-> FALSE, result |-> Success(current_state),
                   meta |-> updated]
             ELSE [wait |-> FALSE,
                   result |-> Success(
                       [current_state EXCEPT !.user_metadata =
                           DictSet(current_state.user_metadata, user_id, updated)]),
                   meta |-> updated]
        ELSE [wait |-> TRUE, result |-> NoResult,
              meta |-> [user_meta EXCEPT !.last_active_timestamp = now]]

\* .map(lambda new_context: current_state.model_copy(update={...}))
add_user_context_created(current_state, user_id, meta, new_context) ==
    Success([user_contexts |-> DictSet(current_state.user_contexts, user_id, new_context),
             user_metadata |-> DictSet(current_state.user_metadata, user_id, meta)])

\* .lash(lambda err: Failure(...ADD_USER_CONTEXT_FAILED...))
add_user_context_failed_bad_op(user_id) ==
    Failure("ADD_USER_CONTEXT_EXISTS", user_id, "", "err")

add_user_context_failed(user_id) ==
    Failure("ADD_USER_CONTEXT_FAILED", user_id, "", "err")

\* The part of remove_user_context that runs before any await: the lookup.
\* wait = TRUE: the caller is suspended in _close_browser_context(context).
remove_user_context_keeps_get_kind(current_state, user_id) ==
    LET context_result == get_user_context(current_state, user_id)
    IN  IF ~context_result.ok
        THEN [wait |-> FALSE, result |-> context_result, context |-> 0]
        ELSE [wait |-> TRUE, result |-> NoResult, context |-> context_result.value]

remove_user_context(current_state, user_id) ==
    LET context_result == get_user_context(current_state, user_id)
    IN  IF ~context_result.ok
        THEN [wait |-> FALSE,
              result |-> [context_result EXCEPT
                            !.operation_name = "REMOVE_USER_CONTEXT_NOT_FOUND"],
              context |-> 0]
        ELSE [wait |-> TRUE, result |-> NoResult, context |-> context_result.value]

\* .map(lambda _: current_state.model_copy(update={both dicts without user_id}))
remove_user_context_closed_bad_meta(current_state, user_id) ==
    Success([user_contexts |-> DictDel(current_state.user_contexts, user_id),
             user_metadata |-> current_state.user_metadata])

remove_user_context_closed(current_state, user_id) ==
    Success([user_contexts |-> DictDel(current_state.user_contexts, user_id),
             user_metadata |-> DictDel(current_state.user_metadata, user_id)])

\* .lash(lambda err: Failure(...REMOVE_USER_CONTEXT_FAILED...))
remove_user_context_failed_bad_op(user_id) ==
    Failure("REMOVE_USER_CONTEXT_NOT_FOUND", user_id, "", "err")

remove_user_context_failed(user_id) ==
    Failure("REMOVE_USER_CONTEXT_FAILED", user_id, "", "err")

update_user_metadata(current_state, user_id, new_meta) ==
    IF ~DictHas(current_state.user_metadata, user_id)
    THEN Failure("UPDATE_USER_METADATA_NOT_FOUND", user_id, "", "")
    ELSE Success([current_state EXCEPT !.user_metadata =
                     DictSet(current_state.user_metadata, user_id, new_meta)])

(***************************************************************************)
(* providers/codebase/codebase_provider.py                                 *)
(***************************************************************************)
create_codebase_state == [user_projects |-> <<>>]

UserProject(project_address, metadata, last_active_timestamp) ==
    [project_address |-> project_address, metadata |-> metadata,
     last_active_timestamp |-> last_active_timestamp]

\* What the GET on {project_address}/galatea/health can end in.
HealthOutcomes == {"200", "2xx", "non2xx", "unreachable"}

\* @future_safe _check_project_health: raise_for_status turns a non-2xx
\* answer into an exception, a transport fault is one already, and
\* future_safe turns both into Failure; otherwise status_code == 200.
_check_project_health_no_raise(outcome) ==
    CASE outcome = "200" -> Success(TRUE)
      [] outcome = "2xx" -> Success(FALSE)
      [] outcome = "non2xx" -> Success(FALSE)
      [] OTHER -> Failure("", "", "", "RequestError")

_check_project_health_any_2xx(outcome) ==
    CASE outcome = "200" -> Success(TRUE)
      [] outcome = "2xx" -> Success(TRUE)
      [] outcome = "non2xx" -> Failure("", "", "", "HTTPStatusError")
      [] OTHER -> Failure("", "", "", "RequestError")

_check_project_health(outcome) ==
    CASE outcome = "200" -> Success(TRUE)
      [] outcome = "2xx" -> Success(FALSE)
      [] outcome = "non2xx" -> Failure("", "", "", "HTTPStatusError")
      [] OTHER -> Failure("", "", "", "RequestError")

\* The part of add_user_project that runs before any await.
\* wait = TRUE: the caller is suspended in _check_project_health(probe).
add_user_project_always_checks(current_state, user_id, project_address, metadata) ==
    [wait |-> TRUE, result |-> NoResult,
     project |-> UserProject(project_address, metadata, utcnow),
     probe |-> project_address]

add_user_project_refresh_drops_others(current_state, user_id, project_address, metadata) ==
    LET now == utcnow
        new_project == UserProject(project_address, metadata, now)
        exists == DictHas(current_state.user_projects, user_id)
        existing_project == DictGet(current_state.user_projects, user_id)
    IN  IF /\ exists
           /\ existing_project.project_address = new_project.project_address
           /\ existing_project.metadata = new_project.metadata
        THEN IF existing_project.last_active_timestamp = now
             THEN [wait |-> FALSE, result |-> Success(current_state),
                   project |-> new_project, probe |-> ""]
             ELSE [wait |-> FALSE,
                   result |-> Success(
                       [user_projects |->
                           <<[k |-> user_id,
                              v |-> [existing_project EXCEPT
                                        !.last_active_timestamp = now]]>>]),
                   project |-> new_project, probe |-> ""]
        ELSE [wait |-> TRUE, result |-> NoResult, project |-> new_project,
              probe |-> new_project.project_address]

add_user_project(current_state, user_id, project_address, metadata) ==
    LET now == utcnow
        new_project == UserProject(project_address, metadata, now)
        exists == DictHas(current_state.user_projects, user_id)
        existing_project == DictGet(current_state.user_projects, user_id)
    IN  IF /\ exists
           /\ existing_project.project_address = new_project.project_address
           /\ existing_project.metadata = new_project.metadata
        THEN IF existing_project.last_active_timestamp = now
             THEN [wait |-> FALSE, result |-> Success(current_state),
                   project |-> new_project, probe |-> ""]
             ELSE [wait |-> FALSE,
                   result |-> Success(
                       [user_projects |-> DictSet(current_state.user_projects, user_id,
                           [existing_project EXCEPT !.last_active_timestamp = now])]),
                   project |-> new_project, probe |-> ""]
        ELSE [wait |-> TRUE, result |-> NoResult, project |-> new_project,
              probe |-> new_project.project_address]

\* The chain after the health check: bind_result, map, lash.
add_user_project_checked_ignores_health(current_state, user_id, project, health) ==
    IF health.ok
    THEN Success([user_projects |->
                     DictSet(current_state.user_projects, user_id, project)])
    ELSE Failure("ADD_USER_PROJECT_HTTP_ERROR", user_id,
                 project.project_address, health.details)

add_user_project_checked_fault_as_not_ready(current_state, user_id, project, health) ==
    IF health.ok /\ health.value
    THEN Success([user_projects |->
                     DictSet(current_state.user_projects, user_id, project)])
    ELSE Failure("ADD_USER_PROJECT_HEALTH_CHECK_FAILED", user_id,
                 project.project_address,
                 "Health endpoint did not return 200 or was unreachable.")

add_user_project_checked_keeps_metadata(current_state, user_id, project, health) ==
    IF health.ok
    THEN IF health.value
         THEN Success([user_projects |->
                  DictSet(current_state.user_projects, user_id,
                      IF DictHas(current_state.user_projects, user_id)
                      THEN [project EXCEPT !.metadata =
                               DictGet(current_state.user_projects, user_id).metadata]
                      ELSE project)])
         ELSE Failure("ADD_USER_PROJECT_HEALTH_CHECK_FAILED", user_id,
                      project.project_address,
                      "Health endpoint did not return 200 or was unreachable.")
    ELSE Failure("ADD_USER_PROJECT_HTTP_ERROR", user_id,
                 project.project_address, health.details)

add_user_project_checked(current_state, user_id, project, health) ==
    IF health.ok
    THEN IF health.value
         THEN Success([user_projects |->
                          DictSet(current_state.user_projects, user_id, project)])
         ELSE Failure("ADD_USER_PROJECT_HEALTH_CHECK_FAILED", user_id,
                      project.project_address,
                      "Health endpoint did not return 200 or was unreachable.")
    ELSE Failure("ADD_USER_PROJECT_HTTP_ERROR", user_id,
                 project.project_address, health.details)

get_user_project(state, user_id) ==
    IF DictHas(state.user_projects, user_id)
    THEN Success(DictGet(state.user_projects, user_id))
    ELSE Failure("GET_USER_PROJECT_NOT_FOUND", user_id, "", "")

remove_user_project_clears(current_state, user_id) ==
    IF ~DictHas(current_state.user_projects, user_id)
    THEN Failure("REMOVE_USER_PROJECT_NOT_FOUND", user_id, "", "")
    ELSE Success([user_projects |-> <<>>])

remove_user_project(current_state, user_id) ==
    IF ~DictHas(current_state.user_projects, user_id)
    THEN Failure("REMOVE_USER_PROJECT_NOT_FOUND", user_id, "", "")
    ELSE Success([user_projects |-> DictDel(current_state.user_projects, user_id)])

update_user_project_metadata_refreshes(current_state, user_id, new_metadata) ==
    IF ~DictHas(current_state.user_projects, user_id)
    THEN Failure("UPDATE_USER_PROJECT_METADATA_NOT_FOUND", user_id, "", "")
    ELSE Success([user_projects |->
             DictSet(current_state.user_projects, user_id,
                 UserProject(
                     DictGet(current_state.user_projects, user_id).project_address,
                     new_metadata, utcnow))])

update_user_project_metadata(current_state, user_id, new_metadata) ==
    IF ~DictHas(current_state.user_projects, user_id)
    THEN Failure("UPDATE_USER_PROJECT_METADATA_NOT_FOUND", user_id, "", "")
    ELSE Success([user_projects |->
             DictSet(current_state.user_projects, user_id,
                 [DictGet(current_state.user_projects, user_id)
                     EXCEPT !.metadata = new_metadata])])

(***************************************************************************)
(* api/api_server.py: state                                                *)
(***************************************************************************)
IdleSlot ==
    [pc |-> "idle", user_id |-> "", current_state |-> NoValue,
     pending |-> NoValue, context |-> 0, probe |-> ""]

SleepingReaper ==
    [pc |-> "sleep", threshold_time |-> [t |-> 0, aware |-> TRUE], todo |-> <<>>,
     current_state |-> NoValue, user_id |-> "", context |-> 0]

\* hist.last: the provider call the last step completed (by) and for whom
\* (user_id), the result it returned (value dropped), how many external
\* calls it made (create, close, health probe), the address a health probe
\* went to and what the probe ended in;
\* hist.removed: users whose removal was published and not undone by an add
\* of their own
Last(by, user_id, result, checks, probe, health) ==
    [by |-> by, user_id |-> user_id, result |-> Outcome(result),
     checks |-> checks, probe |-> probe, health |-> health]

NoLast == Last("", "", NoResult, 0, "", "")

Init ==
    /\ browser_state = create_browser_state
    /\ codebase_state = create_codebase_state
    /\ time = 0
    /\ contexts = <<>>
    /\ health_calls = 0
    /\ slots = [s \in Slots |-> IdleSlot]
    /\ reaper = SleepingReaper
    /\ hist = [removed |-> {}, last |-> NoLast]

\* the server runs until the lifespan cancels the reaper at shutdown
Running == reaper.pc # "cancelled"

Creating == {s \in Slots : slots[s].pc = "create"}

\* handler instances are interchangeable: a new request takes the first free one
FirstFree(s) ==
    /\ slots[s].pc = "idle"
    /\ \A s2 \in Slots : s2 < s => slots[s2].pc # "idle"

Tick(t) ==
    /\ Running
    /\ t > time
    /\ time' = t
    /\ hist' = [hist EXCEPT !.last = NoLast]
    /\ UNCHANGED <<browser_state, codebase_state, contexts, health_calls, slots,
                   reaper>>

(***************************************************************************)
(* browser_context_flow                                                    *)
(***************************************************************************)
\* lines 198-213: swap on Success, then get_user_context on the shared state
\* and the await of run_context_browser_flow; an error is returned at once.
BrowserAfterAddMerges(s, result) ==
    LET user_id == slots[s].user_id
        shared == IF result.ok
                  THEN [user_contexts |->
                            DictSet(browser_state.user_contexts, user_id,
                                    DictGet(result.value.user_contexts, user_id)),
                        user_metadata |->
                            DictSet(browser_state.user_metadata, user_id,
                                    DictGet(result.value.user_metadata, user_id))]
                  ELSE browser_state
        context_result == get_user_context(shared, user_id)
    IN  /\ browser_state' = shared
        /\ slots' = [slots EXCEPT ![s] =
              IF result.ok /\ context_result.ok
              THEN [IdleSlot EXCEPT !.pc = "browser_flow",
                                    !.user_id = user_id,
                                    !.context = context_result.value]
              ELSE IdleSlot]

BrowserAfterAdd(s, result) ==
    LET shared == IF result.ok THEN result.value ELSE browser_state
        context_result == get_user_context(shared, slots[s].user_id)
    IN  /\ browser_state' = shared
        /\ slots' = [slots EXCEPT ![s] =
              IF result.ok /\ context_result.ok
              THEN [IdleSlot EXCEPT !.pc = "browser_flow",
                                    !.user_id = slots[s].user_id,
                                    !.context = context_result.value]
              ELSE IdleSlot]

browser_context_flow_adds_for_present_user(s, user_id, website_url) ==
    /\ Running
    /\ FirstFree(s)
    /\ LET user_meta == UserMetadata(website_url, now_utc)
           add == add_user_context_and_metadata(browser_state, user_id, user_meta)
           context_result == get_user_context(browser_state, user_id)
       IN  IF ~DictHas(browser_state.user_contexts, user_id)
           THEN /\ Len(contexts) + Cardinality(Creating) < MaxContexts
                /\ slots' = [slots EXCEPT ![s] =
                      [IdleSlot EXCEPT !.pc = "create", !.user_id = user_id,
                                       !.current_state = browser_state,
                                       !.pending = add.meta]]
                /\ UNCHANGED browser_state
           ELSE /\ slots' = [slots EXCEPT ![s] =
                      [IdleSlot EXCEPT !.pc = "browser_flow", !.user_id = user_id,
                                       !.context = context_result.value]]
                /\ browser_state' = add.result.value
    /\ hist' = [hist EXCEPT !.last = NoLast]
    /\ UNCHANGED <<codebase_state, time, contexts, health_calls, reaper>>

browser_context_flow(s, user_id, website_url) ==
    /\ Running
    /\ FirstFree(s)
    /\ LET user_meta == UserMetadata(website_url, now_utc)
           add == add_user_context_and_metadata(browser_state, user_id, user_meta)
           context_result == get_user_context(browser_state, user_id)
       IN  IF ~DictHas(browser_state.user_contexts, user_id)
           THEN /\ Len(contexts) + Cardinality(Creating) < MaxContexts
                /\ slots' = [slots EXCEPT ![s] =
                      [IdleSlot EXCEPT !.pc = "create", !.user_id = user_id,
                                       !.current_state = browser_state,
                                       !.pending = add.meta]]
           ELSE /\ slots' = [slots EXCEPT ![s] =
                      [IdleSlot EXCEPT !.pc = "browser_flow", !.user_id = user_id,
                                       !.context = context_result.value]]
    /\ hist' = [hist EXCEPT !.last = NoLast]
    /\ UNCHANGED <<browser_state, codebase_state, time, contexts,
                   health_calls, reaper>>

\* _create_browser_context resolves and the handler resumes
CreateContextDone(s, ok) ==
    /\ slots[s].pc = "create"
    /\ LET new_context == Len(contexts) + 1
           user_id == slots[s].user_id
           result == IF ok
                     THEN add_user_context_created(slots[s].current_state, user_id,
                                                   slots[s].pending, new_context)
                     ELSE add_user_context_failed(user_id)
       IN  /\ contexts' = IF ok
                          THEN Append(contexts, [user_id |-> user_id, open |-> TRUE,
                                                 closes |-> 0])
                          ELSE contexts
           /\ BrowserAfterAdd(s, result)
           /\ hist' = [removed |-> IF ok THEN hist.removed \ {user_id}
                                   ELSE hist.removed,
                       last |-> Last("add_user_context_and_metadata", user_id,
                                     result, 1, "", "")]
    /\ UNCHANGED <<codebase_state, time, health_calls, reaper>>

\* run_context_browser_flow returns and the response is sent
Respond(s) ==
    /\ slots[s].pc = "browser_flow"
    /\ slots' = [slots EXCEPT ![s] = IdleSlot]
    /\ hist' = [hist EXCEPT !.last = NoLast]
    /\ UNCHANGED <<browser_state, codebase_state, time, contexts, health_calls,
                   reaper>>

\* update_user_metadata applied to the shared reference by a synchronous caller
UpdateUserMetadata(user_id, website_url) ==
    /\ Running
    /\ LET result == update_user_metadata(browser_state, user_id,
                                          UserMetadata(website_url, now_utc))
       IN  /\ browser_state' = IF result.ok THEN result.value ELSE browser_state
           /\ hist' = [hist EXCEPT
                          !.last = Last("update_user_metadata", user_id,
                                        result, 0, "", "")]
    /\ UNCHANGED <<codebase_state, time, contexts, health_calls, slots, reaper>>

(***************************************************************************)
(* codebase_basic_flow                                                     *)
(***************************************************************************)
\* lines 237-255: return the error, or swap and run the agent flow, which
\* touches neither registry
CodebaseAfterAdd(s, result) ==
    /\ codebase_state' = IF result.ok THEN result.value ELSE codebase_state
    /\ slots' = [slots EXCEPT ![s] = IdleSlot]

codebase_basic_flow(s, user_id, project_address, metadata) ==
    /\ Running
    /\ FirstFree(s)
    /\ LET add == add_user_project(codebase_state, user_id, project_address, metadata)
       IN  IF add.wait
           THEN /\ health_calls < MaxHealthChecks
                /\ health_calls' = health_calls + 1
                /\ slots' = [slots EXCEPT ![s] =
                      [IdleSlot EXCEPT !.pc = "health", !.user_id = user_id,
                                       !.current_state = codebase_state,
                                       !.pending = add.project,
                                       !.probe = add.probe]]
                /\ hist' = [hist EXCEPT !.last = NoLast]
                /\ UNCHANGED codebase_state
           ELSE /\ codebase_state' = add.result.value
                /\ slots' = [slots EXCEPT ![s] = IdleSlot]
                /\ hist' = [hist EXCEPT
                               !.last = Last("add_user_project", user_id,
                                             add.result, 0, "", "")]
                /\ UNCHANGED health_calls
    /\ UNCHANGED <<browser_state, time, contexts, reaper>>

\* _check_project_health resolves and the handler resumes
HealthCheckDone(s, outcome) ==
    /\ slots[s].pc = "health"
    /\ LET result == add_user_project_checked(slots[s].current_state,
                         slots[s].user_id, slots[s].pending,
                         _check_project_health(outcome))
       IN  /\ CodebaseAfterAdd(s, result)
           /\ hist' = [hist EXCEPT
                          !.last = Last("add_user_project", slots[s].user_id,
                                        result, 1, slots[s].probe, outcome)]
    /\ UNCHANGED <<browser_state, time, contexts, health_calls, reaper>>

(***************************************************************************)
(* recycle_inactive_users                                                  *)
(***************************************************************************)
\* the list comprehensions of lines 144-148 and 158-162
InactiveUsers(d, threshold_time) ==
    KeyList(SelectSeq(d, LAMBDA e : Earlier(e.v.last_active_timestamp, threshold_time)))

\* ... which raise TypeError when a stored timestamp cannot be ordered
\* against threshold_time
ScanRaises(d, threshold_time) ==
    \E i \in DOMAIN d : ~Comparable(d[i].v.last_active_timestamp, threshold_time)

\* _handle_codebase_user_removal for each listed user, in order
RECURSIVE RemoveProjects(_, _)
RemoveProjects(todo, cstate) ==
    IF todo = <<>>
    THEN cstate
    ELSE LET result == remove_user_project(cstate, Head(todo))
         IN  RemoveProjects(Tail(todo), IF result.ok THEN result.value ELSE cstate)

\* _handle_browser_user_removal: what the shared reference is after the
\* removal's result went through .map (swap) or .lash (log)
HandleBrowserRemovalAlwaysSwaps(result, current_state, user_id) ==
    remove_user_context_closed(current_state, user_id).value

HandleBrowserRemoval(result, current_state, user_id) ==
    IF result.ok THEN result.value ELSE browser_state

\* The loop of lines 153-176 from where it stands to its next suspension:
\* the await of a close, or the sleep that follows the codebase scan.
RECURSIVE ReaperRun(_, _, _, _)
ReaperRun(todo, bstate, cstate, threshold_time) ==
    IF todo # <<>>
    THEN LET rm == remove_user_context(bstate, Head(todo))
         IN  IF rm.wait
             THEN [reaper |-> [pc |-> "closing", threshold_time |-> threshold_time,
                               todo |-> Tail(todo), current_state |-> bstate,
                               user_id |-> Head(todo), context |-> rm.context],
                   codebase_state |-> cstate]
             ELSE ReaperRun(Tail(todo), bstate, cstate, threshold_time)
    ELSE IF ScanRaises(cstate.user_projects, threshold_time)
         THEN [reaper |-> [SleepingReaper EXCEPT !.pc = "crashed"],
               codebase_state |-> cstate]
         ELSE [reaper |-> SleepingReaper,
               codebase_state |->
                   RemoveProjects(InactiveUsers(cstate.user_projects, threshold_time),
                                  cstate)]

\* asyncio.sleep returns: lines 138-148, then the loop up to its next await
ReaperWake ==
    /\ reaper.pc = "sleep"
    /\ LET threshold_time == [t |-> time - INACTIVITY_THRESHOLD_SECONDS, aware |-> TRUE]
           run == ReaperRun(InactiveUsers(browser_state.user_metadata, threshold_time),
                            browser_state, codebase_state, threshold_time)
       IN  /\ IF ScanRaises(browser_state.user_metadata, threshold_time)
              THEN /\ reaper' = [SleepingReaper EXCEPT !.pc = "crashed"]
                   /\ UNCHANGED codebase_state
              ELSE /\ reaper' = run.reaper
                   /\ codebase_state' = run.codebase_state
           /\ hist' = [hist EXCEPT !.last = NoLast]
    /\ UNCHANGED <<browser_state, time, contexts, health_calls, slots>>

\* _close_browser_context resolves and _handle_browser_user_removal resumes
ReaperCloseDone(ok) ==
    /\ reaper.pc = "closing"
    /\ LET result == IF ok
                     THEN remove_user_context_closed(reaper.current_state, reaper.user_id)
                     ELSE remove_user_context_failed(reaper.user_id)
           shared == HandleBrowserRemoval(result, reaper.current_state, reaper.user_id)
           run == ReaperRun(reaper.todo, shared, codebase_state, reaper.threshold_time)
       IN  /\ contexts' = IF ok
                          THEN [contexts EXCEPT ![reaper.context] =
                                   [@ EXCEPT !.open = FALSE, !.closes = @ + 1]]
                          ELSE contexts
           /\ browser_state' = shared
           /\ reaper' = run.reaper
           /\ codebase_state' = run.codebase_state
           /\ hist' = [removed |-> IF ok THEN hist.removed \cup {reaper.user_id}
                                   ELSE hist.removed,
                       last |-> Last("remove_user_context", reaper.user_id,
                                     result, 1, "", "")]
    /\ UNCHANGED <<time, health_calls, slots>>

\* lifespan shutdown, lines 76-81: recycling_task.cancel() raises
\* CancelledError at the await the task is suspended in; a close in flight
\* is interrupted and may or may not have taken effect
ReaperCancel(closed) ==
    /\ reaper.pc \in {"sleep", "closing"}
    /\ \A s \in Slots : slots[s].pc = "idle"
    /\ reaper.pc = "sleep" => ~closed
    /\ reaper' = [reaper EXCEPT !.pc = "cancelled"]
    /\ contexts' = IF closed
                   THEN [contexts EXCEPT ![reaper.context] =
                            [@ EXCEPT !.open = FALSE, !.closes = @ + 1]]
                   ELSE contexts
    /\ hist' = [hist EXCEPT !.last = NoLast]
    /\ UNCHANGED <<browser_state, codebase_state, time, health_calls, slots>>

Next ==
    \/ \E t \in Instants : Tick(t)
    \/ \E s \in Slots, u \in Users, w \in Urls : browser_context_flow(s, u, w)
    \/ \E s \in Slots, ok \in BOOLEAN : CreateContextDone(s, ok)
    \/ \E s \in Slots : Respond(s)
    \/ \E u \in Users, w \in Urls : UpdateUserMetadata(u, w)
    \/ \E s \in Slots, u \in Users, p \in Projects :
          codebase_basic_flow(s, u, p.project_address, p.metadata)
    \/ \E s \in Slots, o \in HealthOutcomes : HealthCheckDone(s, o)
    \/ ReaperWake
    \/ \E ok \in BOOLEAN : ReaperCloseDone(ok)
    \/ \E closed \in BOOLEAN : ReaperCancel(closed)

Spec == Init /\ [][Next]_vars

\* browser traffic only: the codebase registry stays empty
NextBrowser ==
    \/ \E t \in Instants : Tick(t)
    \/ \E s \in Slots, u \in Users, w \in Urls : browser_context_flow(s, u, w)
    \/ \E s \in Slots, ok \in BOOLEAN : CreateContextDone(s, ok)
    \/ \E s \in Slots : Respond(s)
    \/ \E u \in Users, w \in Urls : UpdateUserMetadata(u, w)
    \/ ReaperWake
    \/ \E ok \in BOOLEAN : ReaperCloseDone(ok)
    \/ \E closed \in BOOLEAN : ReaperCancel(closed)

SpecBrowser == Init /\ [][NextBrowser]_vars

\* codebase traffic only: the browser registry stays empty
NextCodebase ==
    \/ \E t \in Instants : Tick(t)
    \/ \E s \in Slots, u \in Users, p \in Projects :
          codebase_basic_flow(s, u, p.project_address, p.metadata)
    \/ \E s \in Slots, o \in HealthOutcomes : HealthCheckDone(s, o)
    \/ ReaperWake
    \/ \E closed \in BOOLEAN : ReaperCancel(closed)

SpecCodebase == Init /\ [][NextCodebase]_vars

(***************************************************************************)
(* The provider functions called one after the other by a single caller    *)
(* that keeps the registry each call returns, as the embedded tests of     *)
(* codebase_provider.py and main_example of browser_provider.py do.  The   *)
(* caller awaits every call, so a call is one step.  The two provider      *)
(* modules share nothing: a caller of one does not touch the registry of   *)
(* the other.                                                              *)
(***************************************************************************)
BrowserUntouched == browser_state = create_browser_state /\ contexts = <<>>

CodebaseUntouched == codebase_state = create_codebase_state /\ health_calls = 0

Metas == {p.metadata : p \in Projects}

\* the website_url values the caller passes: the stored one and another
SiteUrls == Urls \cup {"w2"}

\* state = result.unwrap() on Success, the registry in hand otherwise
Kept(result, current_state) == IF result.ok THEN result.value ELSE current_state

CallAddUserProject(user_id, project_address, metadata, outcome) ==
    /\ BrowserUntouched
    /\ LET add == add_user_project(codebase_state, user_id, project_address, metadata)
           result == IF add.wait
                     THEN add_user_project_checked(codebase_state, user_id,
                              add.project, _check_project_health(outcome))
                     ELSE add.result
       IN  /\ add.wait => health_calls < MaxProbes
           /\ ~add.wait => outcome = "200"
           /\ health_calls' = IF add.wait THEN health_calls + 1 ELSE health_calls
           /\ codebase_state' = Kept(result, codebase_state)
           /\ hist' = [hist EXCEPT
                          !.last = Last("add_user_project", user_id, result,
                                        IF add.wait THEN 1 ELSE 0, add.probe,
                                        IF add.wait THEN outcome ELSE "")]
    /\ UNCHANGED <<browser_state, time, contexts, slots, reaper>>

CallGetUserProject(user_id) ==
    /\ BrowserUntouched
    /\ hist' = [hist EXCEPT
                   !.last = Last("get_user_project", user_id,
                                 get_user_project(codebase_state, user_id),
                                 0, "", "")]
    /\ UNCHANGED <<browser_state, codebase_state, time, contexts, health_calls,
                   slots, reaper>>

CallRemoveUserProject(user_id) ==
    /\ BrowserUntouched
    /\ LET result == remove_user_project(codebase_state, user_id)
       IN  /\ codebase_state' = Kept(result, codebase_state)
           /\ hist' = [hist EXCEPT
                          !.last = Last("remove_user_project", user_id, result,
                                        0, "", "")]
    /\ UNCHANGED <<browser_state, time, contexts, health_calls, slots, reaper>>

CallUpdateUserProjectMetadata(user_id, new_metadata) ==
    /\ BrowserUntouched
    /\ LET result == update_user_project_metadata(codebase_state, user_id,
                                                  new_metadata)
       IN  /\ codebase_state' = Kept(result, codebase_state)
           /\ hist' = [hist EXCEPT
                          !.last = Last("update_user_project_metadata", user_id,
                                        result, 0, "", "")]
    /\ UNCHANGED <<browser_state, time, contexts, health_calls, slots, reaper>>

\* created: whether _create_browser_context succeeds, when it is called
CallAddUserContextAndMetadata(user_id, website_url, created) ==
    /\ CodebaseUntouched
    /\ LET add == add_user_context_and_metadata(browser_state, user_id,
                      UserMetadata(website_url, now_utc))
           new_context == Len(contexts) + 1
           result == IF ~add.wait THEN add.result
                     ELSE IF created
                          THEN add_user_context_created(browser_state, user_id,
                                                        add.meta, new_context)
                          ELSE add_user_context_failed(user_id)
       IN  /\ add.wait => Len(contexts) < MaxContexts
           /\ ~add.wait => created
           /\ contexts' = IF add.wait /\ created
                          THEN Append(contexts, [user_id |-> user_id, open |-> TRUE,
                                                 closes |-> 0])
                          ELSE contexts
           /\ browser_state' = Kept(result, browser_state)
           /\ hist' = [removed |-> IF result.ok THEN hist.removed \ {user_id}
                                   ELSE hist.removed,
                       last |-> Last("add_user_context_and_metadata", user_id,
                                     result, IF add.wait THEN 1 ELSE 0, "", "")]
    /\ UNCHANGED <<codebase_state, time, health_calls, slots, reaper>>

CallGetUserContext(user_id) ==
    /\ CodebaseUntouched
    /\ hist' = [hist EXCEPT
                   !.last = Last("get_user_context", user_id,
                                 get_user_context(browser_state, user_id),
                                 0, "", "")]
    /\ UNCHANGED <<browser_state, codebase_state, time, contexts, health_calls,
                   slots, reaper>>

CallGetUserMetadata(user_id) ==
    /\ CodebaseUntouched
    /\ hist' = [hist EXCEPT
                   !.last = Last("get_user_metadata", user_id,
                                 get_user_metadata(browser_state, user_id),
                                 0, "", "")]
    /\ UNCHANGED <<browser_state, codebase_state, time, contexts, health_calls,
                   slots, reaper>>

\* closed: whether _close_browser_context succeeds, when it is called
CallRemoveUserContext(user_id, closed) ==
    /\ CodebaseUntouched
    /\ LET rm == remove_user_context(browser_state, user_id)
           result == IF ~rm.wait THEN rm.result
                     ELSE IF closed
                          THEN remove_user_context_closed(browser_state, user_id)
                          ELSE remove_user_context_failed(user_id)
       IN  /\ ~rm.wait => closed
           /\ contexts' = IF rm.wait /\ closed
                          THEN [contexts EXCEPT ![rm.context] =
                                   [@ EXCEPT !.open = FALSE, !.closes = @ + 1]]
                          ELSE contexts
           /\ browser_state' = Kept(result, browser_state)
           /\ hist' = [removed |-> IF rm.wait /\ closed
                                   THEN hist.removed \cup {user_id}
                                   ELSE hist.removed,
                       last |-> Last("remove_user_context", user_id, result,
                                     IF rm.wait THEN 1 ELSE 0, "", "")]
    /\ UNCHANGED <<codebase_state, time, health_calls, slots, reaper>>

NextProviders ==
    \/ \E t \in Instants : Tick(t)
    \/ \E u \in Users, p \in Projects, o \in HealthOutcomes :
          CallAddUserProject(u, p.project_address, p.metadata, o)
    \/ \E u \in Users : CallGetUserProject(u)
    \/ \E u \in Users : CallRemoveUserProject(u)
    \/ \E u \in Users, m \in Metas : CallUpdateUserProjectMetadata(u, m)
    \/ \E u \in Users, w \in SiteUrls, created \in BOOLEAN :
          CallAddUserContextAndMetadata(u, w, created)
    \/ \E u \in Users : CallGetUserContext(u)
    \/ \E u \in Users : CallGetUserMetadata(u)
    \/ \E u \in Users, closed \in BOOLEAN : CallRemoveUserContext(u, closed)
    \/ \E u \in Users, w \in Urls : UpdateUserMetadata(u, w)

SpecProviders == Init /\ [][NextProviders]_vars

(***************************************************************************)
(* Properties                                                              *)
(***************************************************************************)
Handles(state) == {state.user_contexts[i].v : i \in DOMAIN state.user_contexts}

OpenContexts(user_id) ==
    {h \in DOMAIN contexts : contexts[h].user_id = user_id /\ contexts[h].open}

\* C1: in every reachable value of the shared browser registry the key set
\* of user_contexts equals the key set of user_metadata.
C1_KeySetInvariant ==
    DictKeys(browser_state.user_contexts) = DictKeys(browser_state.user_metadata)

\* a removal has been published and left another user's entry behind
C1_Witness ==
    /\ hist.last.by = "remove_user_context"
    /\ hist.last.result.ok
    /\ Len(browser_state.user_contexts) = 1
    /\ Len(browser_state.user_metadata) = 1

\* C2: a context that appeared in a published snapshot (every context does,
\* in the step that creates it) and is absent from the current shared
\* registry has been closed successfully exactly once.
C2_NoDropWithoutClose ==
    \A h \in DOMAIN contexts :
        h \notin Handles(browser_state) => contexts[h].closes = 1

C5_OneOpenContextPerUser ==
    \A u \in Users : Cardinality(OpenContexts(u)) <= 1

C7_ReaperNeverStops == reaper.pc # "crashed"

\* C8: a reaper cycle that needs no close (so no failing close and no
\* concurrent request) removes every user whose last_active_timestamp is
\* strictly earlier than now minus INACTIVITY_THRESHOLD_SECONDS and keeps
\* every other user's record as it was, in both registries.
C8_Stale(record, threshold_time) ==
    record.last_active_timestamp.t < threshold_time.t

C8_Reaped(before, after, threshold_time) ==
    \A u \in DictKeys(before) :
        IF C8_Stale(DictGet(before, u), threshold_time)
        THEN ~DictHas(after, u)
        ELSE DictHas(after, u) /\ DictGet(after, u) = DictGet(before, u)

C8_ReaperThreshold ==
    [][(ReaperWake /\ reaper'.pc # "closing") =>
          LET threshold_time ==
                  [t |-> time - INACTIVITY_THRESHOLD_SECONDS, aware |-> TRUE]
          IN  /\ C8_Reaped(browser_state.user_metadata,
                           browser_state'.user_metadata, threshold_time)
              /\ C8_Reaped(codebase_state.user_projects,
                           codebase_state'.user_projects, threshold_time)]_vars

\* C9: when the readiness check reports not-ready, add_user_project returns
\* Failure with ADD_USER_PROJECT_HEALTH_CHECK_FAILED carrying the user id
\* and the project address, and the registry is unchanged.
C9_HealthCheckGating ==
    [][\A s \in Slots :
          HealthCheckDone(s, "2xx") =>
              /\ hist'.last.result =
                     Failure("ADD_USER_PROJECT_HEALTH_CHECK_FAILED",
                             slots[s].user_id, slots[s].pending.project_address,
                             "Health endpoint did not return 200 or was unreachable.")
              /\ codebase_state' = codebase_state
              /\ add_user_project_checked(slots[s].current_state, slots[s].user_id,
                     slots[s].pending, _check_project_health("2xx")).ok = FALSE]_vars

\* a present user's changed re-add failed the health check and the old
\* record is still there
C9_Witness ==
    /\ hist.last.by = "add_user_project"
    /\ hist.last.result.operation_name = "ADD_USER_PROJECT_HEALTH_CHECK_FAILED"
    /\ DictHas(codebase_state.user_projects, hist.last.result.user_id)
    /\ DictGet(codebase_state.user_projects, hist.last.result.user_id).project_address
           # hist.last.result.project_address

\* C10: re-adding a present user with the stored address and metadata
\* succeeds without invoking the readiness check, whatever the stored
\* timestamp is.
C10_NoOpSkip ==
    [][\A s \in Slots, u \in Users, p \in Projects :
          (/\ codebase_basic_flow(s, u, p.project_address, p.metadata)
           /\ DictHas(codebase_state.user_projects, u)
           /\ DictGet(codebase_state.user_projects, u).project_address
                  = p.project_address
           /\ DictGet(codebase_state.user_projects, u).metadata = p.metadata)
          => /\ health_calls' = health_calls
             /\ hist'.last.result.ok
             /\ hist'.last.checks = 0
             /\ \A s2 \in Slots : slots'[s2].pc # "health" \/ slots[s2].pc = "health"]_vars

\* an identical re-add has succeeded, at a later instant than the stored one
C10_Witness ==
    /\ hist.last.by = "add_user_project"
    /\ hist.last.result.ok
    /\ hist.last.checks = 0
    /\ time > 0
    /\ health_calls = 1

\* C11: every step that publishes a record for a user who had none, or
\* changes the project_address of a record, is an add_user_project that
\* made one readiness check, on the address it stores, and the check
\* reported ready; a step that changes only the metadata is such an add or
\* an update_user_project_metadata, which keeps the address already checked.
C11_Changed(u) ==
    \/ ~DictHas(codebase_state.user_projects, u)
    \/ DictGet(codebase_state.user_projects, u).project_address
           # DictGet(codebase_state'.user_projects, u).project_address
    \/ DictGet(codebase_state.user_projects, u).metadata
           # DictGet(codebase_state'.user_projects, u).metadata

C11_CheckedAdd(u) ==
    /\ hist'.last.by = "add_user_project"
    /\ hist'.last.user_id = u
    /\ hist'.last.result.ok
    /\ hist'.last.health = "200"
    /\ hist'.last.probe = DictGet(codebase_state'.user_projects, u).project_address
    /\ health_calls' = health_calls + 1

C11_MetadataUpdate(u) ==
    /\ hist'.last.by = "update_user_project_metadata"
    /\ hist'.last.user_id = u
    /\ DictHas(codebase_state.user_projects, u)
    /\ DictGet(codebase_state.user_projects, u).project_address
           = DictGet(codebase_state'.user_projects, u).project_address

C12_OthersUnchanged(u) ==
    \A w \in Users \ {u} :
        /\ DictHas(codebase_state'.user_projects, w)
               <=> DictHas(codebase_state.user_projects, w)
        /\ DictHas(codebase_state.user_projects, w)
               => DictGet(codebase_state'.user_projects, w)
                      = DictGet(codebase_state.user_projects, w)

C12_ChangedReAdd ==
    [][\A u \in Users, p \in Projects, o \in HealthOutcomes :
          (/\ CallAddUserProject(u, p.project_address, p.metadata, o)
           /\ DictHas(codebase_state.user_projects, u)
           /\ \/ DictGet(codebase_state.user_projects, u).project_address
                     # p.project_address
              \/ DictGet(codebase_state.user_projects, u).metadata # p.metadata)
          => /\ health_calls' = health_calls + 1
             /\ hist'.last.checks = 1
             /\ hist'.last.probe = p.project_address
             /\ o = "200" =>
                   /\ hist'.last.result.ok
                   /\ DictHas(codebase_state'.user_projects, u)
                   /\ DictGet(codebase_state'.user_projects, u).project_address
                          = p.project_address
                   /\ DictGet(codebase_state'.user_projects, u).metadata
                          = p.metadata
                   /\ C12_OthersUnchanged(u)]_vars

\* a checked add has just succeeded for the user stored first of two: an
\* insert appends, so that user was present and the add changed its data
C12_Witness ==
    /\ hist.last.by = "add_user_project"
    /\ hist.last.result.ok
    /\ hist.last.checks = 1
    /\ Len(codebase_state.user_projects) = 2
    /\ codebase_state.user_projects[1].k = hist.last.user_id

\* C13: add_user_project applied a second time with the same user, address
\* and metadata makes no readiness check and returns a registry equal to the
\* one the first application returned, except possibly for that user's
\* last_active_timestamp; at the instant of the first application it
\* returns exactly that registry.
C13_EqualButTimestamp(r1, r2, u) ==
    /\ KeyList(r1.user_projects) = KeyList(r2.user_projects)
    /\ \A w \in DictKeys(r1.user_projects) :
          IF w = u
          THEN /\ DictGet(r1.user_projects, w).project_address
                      = DictGet(r2.user_projects, w).project_address
               /\ DictGet(r1.user_projects, w).metadata
                      = DictGet(r2.user_projects, w).metadata
          ELSE DictGet(r1.user_projects, w) = DictGet(r2.user_projects, w)

C13_Holds(u, p) ==
    /\ DictHas(codebase_state.user_projects, u)
    /\ DictGet(codebase_state.user_projects, u).project_address = p.project_address
    /\ DictGet(codebase_state.user_projects, u).metadata = p.metadata

C13_IdempotentReAdd ==
    [][\A u \in Users, p \in Projects :
          /\ (CallAddUserProject(u, p.project_address, p.metadata, "200")
                  /\ hist'.last.checks = 1)
             => LET again == add_user_project(codebase_state', u,
                                              p.project_address, p.metadata)
                IN  /\ hist'.last.result.ok
                    /\ ~again.wait
                    /\ again.result = Success(codebase_state')
          /\ (CallAddUserProject(u, p.project_address, p.metadata, "200")
                  /\ C13_Holds(u, p))
             => /\ hist'.last.result.ok
                /\ health_calls' = health_calls
                /\ C13_EqualButTimestamp(codebase_state, codebase_state', u)
                /\ DictGet(codebase_state.user_projects, u).last_active_timestamp
                       = utcnow => codebase_state' = codebase_state]_vars

\* a second, identical add came at a later instant than the first, with
\* another user's record in the registry
C13_Witness ==
    /\ hist.last.by = "add_user_project"
    /\ hist.last.result.ok
    /\ hist.last.checks = 0
    /\ time > 0
    /\ Len(codebase_state.user_projects) = 2
    /\ DictGet(codebase_state.user_projects, hist.last.user_id)
           .last_active_timestamp.t = time
    /\ \E w \in Users :
          /\ DictHas(codebase_state.user_projects, w)
          /\ DictGet(codebase_state.user_projects, w).last_active_timestamp.t = 0

\* C14: add_user_project for a user stored with the same address and
\* metadata returns a state equal to the input, the user's record equal in
\* all fields, last_active_timestamp included.
C14_IdenticalReAddUnchanged ==
    [][\A u \in Users, p \in Projects :
          (CallAddUserProject(u, p.project_address, p.metadata, "200")
               /\ C13_Holds(u, p))
          => /\ hist'.last.result.ok
             /\ codebase_state' = codebase_state]_vars

\* C15: when the readiness check ends in a fault (an error status or a
\* transport error, delivered as a Failure holding the exception),
\* add_user_project returns Failure with ADD_USER_PROJECT_HTTP_ERROR, the
\* user id, the project address and the fault's text as details, and the
\* registry is unchanged.
C15_Faults == {o \in HealthOutcomes : ~_check_project_health(o).ok}

C15_TransportFaultsConverted ==
    [][\A u \in Users, p \in Projects, o \in C15_Faults :
          (CallAddUserProject(u, p.project_address, p.metadata, o)
               /\ hist'.last.checks = 1)
          => /\ hist'.last.result =
                    Failure("ADD_USER_PROJECT_HTTP_ERROR", u, p.project_address,
                            _check_project_health(o).details)
             /\ hist'.last.result.details \in {"HTTPStatusError", "RequestError"}
             /\ codebase_state' = codebase_state]_vars

\* a changed re-add of a stored user ran into an unreachable endpoint
C15_Witness ==
    /\ hist.last.by = "add_user_project"
    /\ hist.last.result.operation_name = "ADD_USER_PROJECT_HTTP_ERROR"
    /\ hist.last.result.details = "RequestError"
    /\ hist.last.health = "unreachable"
    /\ DictHas(codebase_state.user_projects, hist.last.user_id)

\* C16: for a user_id absent from the registry, each of get_user_project,
\* remove_user_project, update_user_project_metadata, get_user_context,
\* get_user_metadata, remove_user_context and update_user_metadata returns
\* Failure with its own *_NOT_FOUND kind and that user_id, makes no external
\* call and leaves the registry as it was.
C16_NotFound(by, u, kind) ==
    (hist'.last.by = by /\ hist'.last.user_id = u)
    => /\ hist'.last.result = Failure(kind, u, "", "")
       /\ hist'.last.checks = 0
       /\ UNCHANGED <<browser_state, codebase_state, contexts, health_calls>>

C16_NotFoundErrors ==
    [][\A u \in Users :
          /\ ~DictHas(codebase_state.user_projects, u)
             => /\ C16_NotFound("get_user_project", u, "GET_USER_PROJECT_NOT_FOUND")
                /\ C16_NotFound("remove_user_project", u,
                                "REMOVE_USER_PROJECT_NOT_FOUND")
                /\ C16_NotFound("update_user_project_metadata", u,
                                "UPDATE_USER_PROJECT_METADATA_NOT_FOUND")
          /\ ~DictHas(browser_state.user_contexts, u)
             => /\ C16_NotFound("get_user_context", u, "GET_USER_CONTEXT_NOT_FOUND")
                /\ C16_NotFound("remove_user_context", u,
                                "REMOVE_USER_CONTEXT_NOT_FOUND")
          /\ ~DictHas(browser_state.user_metadata, u)
             => /\ C16_NotFound("get_user_metadata", u,
                                "GET_USER_METADATA_NOT_FOUND")
                /\ C16_NotFound("update_user_metadata", u,
                                "UPDATE_USER_METADATA_NOT_FOUND")]_vars

\* a removal was asked for a user the registry does not hold, while it holds
\* another
C16_Witness ==
    /\ hist.last.by = "remove_user_context"
    /\ hist.last.result.operation_name = "REMOVE_USER_CONTEXT_NOT_FOUND"
    /\ Len(browser_state.user_contexts) = 1
    /\ ~DictHas(browser_state.user_contexts, hist.last.user_id)

C18_BrowserReAdd ==
    [][\A u \in Users, w \in SiteUrls :
          (CallAddUserContextAndMetadata(u, w, TRUE)
               /\ DictHas(browser_state.user_contexts, u))
          => /\ hist'.last.result.ok
             /\ hist'.last.checks = 0
             /\ contexts' = contexts
             /\ browser_state'.user_contexts = browser_state.user_contexts
             /\ KeyList(browser_state'.user_metadata)
                    = KeyList(browser_state.user_metadata)
             /\ \A v \in DictKeys(browser_state.user_metadata) \ {u} :
                    DictGet(browser_state'.user_metadata, v)
                        = DictGet(browser_state.user_metadata, v)
             /\ DictGet(browser_state'.user_metadata, u) = UserMetadata(w, utcnow)]_vars

\* a re-add of the user stored first of two has replaced the website_url
\* and the timestamp of that user's metadata
C18_Witness ==
    /\ hist.last.by = "add_user_context_and_metadata"
    /\ hist.last.result.ok
    /\ hist.last.checks = 0
    /\ Len(browser_state.user_metadata) = 2
    /\ browser_state.user_metadata[1].k = hist.last.user_id
    /\ browser_state.user_metadata[1].v = UserMetadata("w2", utcnow)
    /\ time > 0

\* C19: update_user_project_metadata for a present user returns Success
\* with a registry in which that user's record has the new metadata (none
\* included) and its old project_address and last_active_timestamp, and
\* every other user's record is as it was.
C19_UpdateMetadataFrame ==
    [][\A u \in Users, m \in Metas :
          (CallUpdateUserProjectMetadata(u, m)
               /\ DictHas(codebase_state.user_projects, u))
          => /\ hist'.last.result.ok
             /\ DictHas(codebase_state'.user_projects, u)
             /\ DictGet(codebase_state'.user_projects, u)
                    = [DictGet(codebase_state.user_projects, u) EXCEPT !.metadata = m]
             /\ C12_OthersUnchanged(u)]_vars

\* metadata was set on a record whose address add_user_project stores only
\* without metadata, at a later instant than the record's timestamp, with
\* another user's record in the registry
C19_Witness ==
    /\ hist.last.by = "update_user_project_metadata"
    /\ hist.last.result.ok
    /\ Len(codebase_state.user_projects) = 2
    /\ time > 0
    /\ DictGet(codebase_state.user_projects, hist.last.user_id)
           = UserProject("a2", "m1", [t |-> 0, aware |-> FALSE])

\* C20: remove_user_project for a present user returns Success with a
\* registry whose keys are the input's keys without that user, every other
\* user's record as it was; the input registry still holds the user.
C20_RemoveProjectFrame ==
    [][\A u \in Users :
          (CallRemoveUserProject(u) /\ DictHas(codebase_state.user_projects, u))
          => /\ hist'.last.result.ok
             /\ DictKeys(codebase_state'.user_projects)
                    = DictKeys(codebase_state.user_projects) \ {u}
             /\ C12_OthersUnchanged(u)
             /\ get_user_project(codebase_state, u).ok]_vars

\* one of two stored users has been removed
C20_Witness ==
    /\ hist.last.by = "remove_user_project"
    /\ hist.last.result.ok
    /\ Len(codebase_state.user_projects) = 1
    /\ ~DictHas(codebase_state.user_projects, hist.last.user_id)

\* C21: _check_project_health yields Success(True) only for an answer with
\* a 2xx status; for an answer with another status and for a transport
\* fault it yields a Failure that carries the fault, not Success(False),
\* and the fault is what the caller gets to classify.
C21_Fault(o) == IF o = "non2xx" THEN "HTTPStatusError" ELSE "RequestError"

C21_ReadinessCheckResult ==
    [][\A s \in Slots, o \in HealthOutcomes :
          HealthCheckDone(s, o) =>
              LET health == _check_project_health(o)
              IN  /\ (health.ok /\ health.value) => o \in {"200", "2xx"}
                  /\ o \in {"non2xx", "unreachable"} =>
                        /\ ~health.ok
                        /\ health.details = C21_Fault(o)
                        /\ hist'.last.result.details = C21_Fault(o)]_vars

\* a probe was answered with an error status and add_user_project handed
\* the HTTPStatusError on
C21_Witness ==
    /\ hist.last.by = "add_user_project"
    /\ hist.last.health = "non2xx"
    /\ hist.last.result.details = "HTTPStatusError"
    /\ ~hist.last.result.ok

\* C22: when an add that read snapshot S resumes after its create succeeded,
\* the shared registry becomes S plus that add's own user and nothing else:
\* an entry another add published in the meantime, for a user S does not
\* hold, is absent afterwards.
C22_LastWriterWins ==
    [][\A s \in Slots :
          CreateContextDone(s, TRUE) =>
              LET S == slots[s].current_state
                  u == slots[s].user_id
              IN  /\ browser_state'.user_contexts
                         = DictSet(S.user_contexts, u, Len(contexts) + 1)
                  /\ browser_state'.user_metadata
                         = DictSet(S.user_metadata, u, slots[s].pending)
                  /\ \A w \in Users \ {u} :
                        ~DictHas(S.user_contexts, w)
                            => ~DictHas(browser_state'.user_contexts, w)]_vars

\* two adds for different users both created their context; the registry
\* holds the second finisher's user only, the first context is still open
C22_Witness ==
    /\ hist.last.by = "add_user_context_and_metadata"
    /\ hist.last.result.ok
    /\ Len(contexts) = 2
    /\ contexts[1].user_id # contexts[2].user_id
    /\ contexts[1].open /\ contexts[2].open
    /\ KeyList(browser_state.user_contexts) = <<contexts[2].user_id>>
    /\ browser_state.user_contexts[1].v = 2

C24_Swapped ==
    \/ \E s \in Slots :
          /\ CreateContextDone(s, TRUE)
          /\ browser_state' =
                 [user_contexts |->
                      DictSet(slots[s].current_state.user_contexts,
                              slots[s].user_id, Len(contexts) + 1),
                  user_metadata |->
                      DictSet(slots[s].current_state.user_metadata,
                              slots[s].user_id, slots[s].pending)]
    \/ /\ ReaperCloseDone(TRUE)
       /\ browser_state' =
              [user_contexts |->
                   DictDel(reaper.current_state.user_contexts, reaper.user_id),
               user_metadata |->
                   DictDel(reaper.current_state.user_metadata, reaper.user_id)]
    \/ \E u \in Users, w \in Urls :
          /\ UpdateUserMetadata(u, w)
          /\ DictHas(browser_state.user_metadata, u)
          /\ browser_state' =
                 [browser_state EXCEPT !.user_metadata =
                     DictSet(browser_state.user_metadata, u,
                             UserMetadata(w, now_utc))]

C24_AtomicReplacement ==
    [][/\ browser_state' # browser_state =>
             /\ C24_Swapped
             /\ hist'.last.result.ok
             /\ DictKeys(browser_state'.user_contexts)
                    = DictKeys(browser_state'.user_metadata)
       /\ (\/ \E s \in Slots, u \in Users, w \in Urls : browser_context_flow(s, u, w)
           \/ \E s \in Slots : CreateContextDone(s, FALSE)
           \/ ReaperWake
           \/ ReaperCloseDone(FALSE)
           \/ \E closed \in BOOLEAN : ReaperCancel(closed))
          => browser_state' = browser_state]_vars

\* the reaper was cancelled while its removal of a user was in flight, and
\* the shared registry still holds that user's whole entry
C24_Witness ==
    /\ reaper.pc = "cancelled"
    /\ reaper.context # 0
    /\ DictHas(browser_state.user_contexts, reaper.user_id)
    /\ DictHas(browser_state.user_metadata, reaper.user_id)
    /\ DictGet(browser_state.user_contexts, reaper.user_id) = reaper.context

\* C25: an entry that an add stored and that has gone stale is eventually
\* evicted by the reaper, which keeps scanning until it is cancelled: as
\* long as such an entry is in the shared browser registry, the reaper has
\* not ended other than by cancellation.
C25_AddStored(record) == ~record.last_active_timestamp.aware

C25_StaleEntryHasLiveReaper ==
    (\E u \in DictKeys(browser_state.user_metadata) :
        LET record == DictGet(browser_state.user_metadata, u)
        IN  /\ C25_AddStored(record)
            /\ record.last_active_timestamp.t < time - INACTIVITY_THRESHOLD_SECONDS)
    => reaper.pc \in {"sleep", "closing", "cancelled"}

C28_PresentUserRequestFrame ==
    [][/\ \A s \in Slots, u \in Users, w \in Urls :
             (browser_context_flow(s, u, w) /\ DictHas(browser_state.user_contexts, u)) =>
                 /\ browser_state' = browser_state
                 /\ slots'[s].pc = "browser_flow"
                 /\ slots'[s].context = DictGet(browser_state.user_contexts, u)
                 /\ DictGet(browser_state'.user_metadata, u).last_active_timestamp
                        = DictGet(browser_state.user_metadata, u).last_active_timestamp
       /\ \A s \in Slots : Respond(s) => browser_state' = browser_state]_vars

\* a second request for the same user is running on the context the first
\* one created, later than the stored timestamp
C28_Witness ==
    /\ slots[1].pc = "browser_flow"
    /\ slots[2].pc = "browser_flow"
    /\ slots[1].user_id = slots[2].user_id
    /\ slots[1].context = slots[2].context
    /\ DictHas(browser_state.user_metadata, slots[2].user_id)
    /\ DictGet(browser_state.user_metadata, slots[2].user_id).last_active_timestamp.t < time

\* C29: codebase reaping is one uninterrupted step: when the reaper's scan
\* lists inactive codebase users, the same step removes every one of them
\* from the registry that is shared at that moment, keeps every other
\* record (so no published add is overwritten), and the reaper goes back
\* to sleep.
C29_Listed(threshold_time) ==
    {u \in DictKeys(codebase_state.user_projects) :
        DictGet(codebase_state.user_projects, u).last_active_timestamp.t
            < threshold_time.t}

C29_AtomicCodebaseReaping ==
    [][LET listed == C29_Listed([t |-> time - INACTIVITY_THRESHOLD_SECONDS,
                                 aware |-> TRUE])
       IN  (ReaperWake /\ browser_state.user_metadata = <<>> /\ listed # {}) =>
               /\ reaper'.pc = "sleep"
               /\ codebase_state'.user_projects =
                      SelectSeq(codebase_state.user_projects,
                                LAMBDA e : e.k \notin listed)]_vars

\* C30: with the real readiness check, add_user_project fails with
\* ADD_USER_PROJECT_HEALTH_CHECK_FAILED only after a 2xx answer other than
\* 200, fails with ADD_USER_PROJECT_HTTP_ERROR after every non-2xx answer
\* and every unreachable endpoint, and stores the record only after a 200.
C30_ErrorClassification ==
    [][\A s \in Slots, o \in HealthOutcomes :
          HealthCheckDone(s, o) =>
              LET result == hist'.last.result
                  u == slots[s].user_id
              IN  /\ (~result.ok /\ result.operation_name
                                      = "ADD_USER_PROJECT_HEALTH_CHECK_FAILED")
                         => o = "2xx"
                  /\ o \in {"non2xx", "unreachable"} =>
                         /\ ~result.ok
                         /\ result.operation_name = "ADD_USER_PROJECT_HTTP_ERROR"
                  /\ result.ok => o = "200"
                  /\ o # "200" => codebase_state' = codebase_state
                  /\ o = "200" =>
                         /\ DictHas(codebase_state'.user_projects, u)
                         /\ DictGet(codebase_state'.user_projects, u) = slots[s].pending]_vars

\* a 2xx answer other than 200 was classified as a failed health check for
\* a user that has no record
C30_Witness ==
    /\ hist.last.by = "add_user_project"
    /\ hist.last.health = "2xx"
    /\ ~hist.last.result.ok
    /\ hist.last.result.operation_name = "ADD_USER_PROJECT_HEALTH_CHECK_FAILED"
    /\ ~DictHas(codebase_state.user_projects, hist.last.user_id)

====
